---- MODULE Spec2Model ----
(***************************************************************************)
(* Model of src/serialize.ts of google-maps-services-js: the coordinate    *)
(* and value serializers, the query encoder returned by serializer() and   *)
(* the premium-plan signer.                                                *)
(*                                                                         *)
(* Strings are sequences of one-character strings, so that joins, sorts,   *)
(* percent-encoding and length comparisons are computed character by       *)
(* character.  Numbers are fixed-point integers counting units of 1e-5     *)
(* (Scale units make 1), which represents every coordinate and timestamp   *)
(* used here exactly.                                                      *)
(***************************************************************************)
EXTENDS Integers, Sequences, FiniteSets

(***************************************************************************)
(* Characters and strings                                                  *)
(***************************************************************************)

\* The printable ASCII characters in code order; Ascii[i] has code i + 31
\* (the backslash, code 92, and the backtick, code 96, are written as names;
\* each is still one element, hence one character, of a string).
Ascii ==
  << " ", "!", "\"", "#", "$", "%", "&", "'", "(", ")", "*", "+", ",", "-", ".", "/",
     "0", "1", "2", "3", "4", "5", "6", "7", "8", "9", ":", ";", "<", "=", ">", "?",
     "@", "A", "B", "C", "D", "E", "F", "G", "H", "I", "J", "K", "L", "M", "N", "O",
     "P", "Q", "R", "S", "T", "U", "V", "W", "X", "Y", "Z", "[", "backslash", "]", "^", "_",
     "backtick", "a", "b", "c", "d", "e", "f", "g", "h", "i", "j", "k", "l", "m", "n", "o",
     "p", "q", "r", "s", "t", "u", "v", "w", "x", "y", "z", "{", "|", "}", "~" >>

\* The UTF-16 code unit of each character.
CharCodes == [c \in {Ascii[i] : i \in 1..Len(Ascii)} |->
                31 + (CHOOSE i \in 1..Len(Ascii) : Ascii[i] = c)]

\* charCodeAt
Code(c) == CharCodes[c]

\* String.fromCharCode
FromCharCode(n) == Ascii[n - 31]

\* The order of Array.prototype.sort() without a comparator on strings:
\* code unit by code unit, a proper prefix first.
RECURSIVE StrLess(_, _)
StrLess(s, t) ==
  IF t = <<>> THEN FALSE
  ELSE IF s = <<>> THEN TRUE
  ELSE IF Head(s) = Head(t) THEN StrLess(Tail(s), Tail(t))
  ELSE Code(Head(s)) < Code(Head(t))

\* Array.prototype.join on an array of strings.
RECURSIVE Join(_, _)
Join(parts, sep) ==
  IF parts = <<>> THEN <<>>
  ELSE IF Len(parts) = 1 THEN parts[1]
  ELSE parts[1] \o sep \o Join(Tail(parts), sep)

\* String.prototype.split on a one-character separator.
RECURSIVE Split(_, _)
Split(s, c) ==
  IF \A i \in 1..Len(s) : s[i] # c THEN <<s>>
  ELSE LET i == CHOOSE j \in 1..Len(s) : s[j] = c /\ \A k \in 1..(j - 1) : s[k] # c
       IN <<SubSeq(s, 1, i - 1)>> \o Split(SubSeq(s, i + 1, Len(s)), c)

\* Array.prototype.sort() on an array of distinct strings (insertion sort;
\* the result of a sort of distinct keys does not depend on the algorithm).
RECURSIVE SortStrings(_)
SortStrings(keys) ==
  IF keys = <<>> THEN <<>>
  ELSE LET rest == SortStrings(Tail(keys))
           k == Head(keys)
           n == Cardinality({i \in 1..Len(rest) : StrLess(rest[i], k)})
       IN SubSeq(rest, 1, n) \o <<k>> \o SubSeq(rest, n + 1, Len(rest))

separator == <<"|">>

(***************************************************************************)
(* Numbers                                                                 *)
(***************************************************************************)

\* Fixed-point unit: a number n of the program is the integer n * Scale.
Scale == 100000

Digits == <<"0", "1", "2", "3", "4", "5", "6", "7", "8", "9">>

RECURSIVE NatToString(_)
NatToString(n) ==
  IF n < 10 THEN <<Digits[n + 1]>>
  ELSE NatToString(n \div 10) \o <<Digits[(n % 10) + 1]>>

\* The fraction digits of f / w, 0 < f < w, without trailing zeros.
RECURSIVE FracToString(_, _)
FracToString(f, w) ==
  IF f = 0 THEN <<>>
  ELSE <<Digits[(f \div (w \div 10)) + 1]>> \o FracToString(f % (w \div 10), w \div 10)

\* Number.prototype.toString() of a finite number (no exponent form arises
\* for multiples of 1e-5 of this magnitude).
NumberToString(n) ==
  LET a == IF n < 0 THEN -n ELSE n
      body == NatToString(a \div Scale) \o
              (IF a % Scale = 0 THEN <<>> ELSE <<".">> \o FracToString(a % Scale, Scale))
  IN IF n < 0 THEN <<"-">> \o body ELSE body

\* A value of type number, as toLatLngLiteral can produce it: a finite
\* number, NaN, or undefined (a missing array element).
Num(n) == [kind |-> "num", v |-> n]
NaN == [kind |-> "nan", v |-> 0]
Undefined == [kind |-> "undefined", v |-> 0]

IsDigit(c) == \E i \in 1..10 : Digits[i] = c

RECURSIVE DigitsToNat(_)
DigitsToNat(s) ==
  IF s = <<>> THEN 0
  ELSE 10 * DigitsToNat(SubSeq(s, 1, Len(s) - 1))
       + ((CHOOSE i \in 1..10 : Digits[i] = s[Len(s)]) - 1)

RECURSIVE Pow10(_)
Pow10(k) == IF k = 0 THEN 1 ELSE 10 * Pow10(k - 1)

\* Number(s) for a string s: the empty string is 0, a decimal literal with
\* an optional sign and at most five fraction digits is its value, anything
\* else here is NaN.
ToNumber(s) ==
  LET neg == s # <<>> /\ Head(s) = "-"
      u == IF s # <<>> /\ Head(s) \in {"-", "+"} THEN Tail(s) ELSE s
      parts == Split(u, ".")
      ip == parts[1]
      fp == IF Len(parts) = 2 THEN parts[2] ELSE <<>>
      wellFormed == /\ Len(parts) <= 2
                    /\ \A i \in 1..Len(ip) : IsDigit(ip[i])
                    /\ \A i \in 1..Len(fp) : IsDigit(fp[i])
                    /\ Len(ip) + Len(fp) > 0
                    /\ Len(fp) <= 5
      mag == DigitsToNat(ip) * Scale + DigitsToNat(fp) * Pow10(5 - Len(fp))
  IN IF s = <<>> THEN Num(0)
     ELSE IF ~wellFormed THEN NaN
     ELSE Num(IF neg THEN -mag ELSE mag)

(***************************************************************************)
(* Coordinates                                                             *)
(***************************************************************************)

\* The property names an object given as a coordinate may carry.
ObjKeys == {"lat", "lng", "latitude", "longitude", "foo"}

\* A primitive array element or property value: a string or a number.
PrimStr(s) == [t |-> "string", s |-> s, n |-> 0]
PrimNum(n) == [t |-> "number", s |-> <<>>, n |-> n]

\* x.toString(), String(x) and string concatenation of a primitive
PrimToString(x) == IF x.t = "string" THEN x.s ELSE NumberToString(x.n)

\* Number(x) of a primitive
PrimToNumber(x) == IF x.t = "string" THEN ToNumber(x.s) ELSE Num(x.n)

\* A value passed as a LatLng: a string, an array of primitives, or an object
\* with the properties keys (val gives the number under each of them).
CoordString(s) == [shape |-> "string", str |-> s, arr |-> <<>>, keys |-> {},
                   val |-> [k \in ObjKeys |-> 0]]
CoordArray(a) == [shape |-> "array", str |-> <<>>, arr |-> a, keys |-> {},
                  val |-> [k \in ObjKeys |-> 0]]
CoordObject(ks, vs) == [shape |-> "object", str |-> <<>>, arr |-> <<>>, keys |-> ks,
                        val |-> [k \in ObjKeys |-> IF k \in ks THEN vs[k] ELSE 0]]

\* The value undefined, as reading a missing property gives it.
UndefinedValue == [shape |-> "undefined", str |-> <<>>, arr |-> <<>>, keys |-> {},
                   val |-> [k \in ObjKeys |-> 0]]

\* The JavaScript expression  k in o  for the property names of ObjKeys.
HasKey(o, k) == o.shape = "object" /\ k \in o.keys

\* The outcome of a call: a returned value, or a thrown error.
Return(x) == [ok |-> TRUE, v |-> x, error |-> "none"]
Throw(e, dflt) == [ok |-> FALSE, v |-> dflt, error |-> e]

\* o.map((x) => x.toString()).join(",") of a two-element array
PairToString(a, b) == PrimToString(a) \o <<",">> \o PrimToString(b)

\* Variant: one property of a pair is enough.
latLngToStringLoose(o) ==
  IF o.shape = "string" THEN Return(o.str)
  ELSE IF o.shape = "array" /\ Len(o.arr) = 2 THEN Return(PairToString(o.arr[1], o.arr[2]))
  ELSE IF HasKey(o, "lat") \/ HasKey(o, "lng") THEN Return(PairToString(PrimNum(o.val["lat"]), PrimNum(o.val["lng"])))
  ELSE IF HasKey(o, "latitude") \/ HasKey(o, "longitude")
    THEN Return(PairToString(PrimNum(o.val["latitude"]), PrimNum(o.val["longitude"])))
  ELSE Throw("TypeError", <<>>)

latLngToString(o) ==
  IF o.shape = "string" THEN Return(o.str)
  ELSE IF o.shape = "array" /\ Len(o.arr) = 2 THEN Return(PairToString(o.arr[1], o.arr[2]))
  ELSE IF HasKey(o, "lat") /\ HasKey(o, "lng") THEN Return(PairToString(PrimNum(o.val["lat"]), PrimNum(o.val["lng"])))
  ELSE IF HasKey(o, "latitude") /\ HasKey(o, "longitude")
    THEN Return(PairToString(PrimNum(o.val["latitude"]), PrimNum(o.val["longitude"])))
  ELSE Throw("TypeError", <<>>)

LatLngLiteral(a, b) == [lat |-> a, lng |-> b]

toLatLngLiteral(o) ==
  IF o.shape = "string"
    THEN LET parts == Split(o.str, ",")
         IN Return(LatLngLiteral(ToNumber(parts[1]),
                                 IF Len(parts) >= 2 THEN ToNumber(parts[2]) ELSE Undefined))
  ELSE IF o.shape = "array" /\ Len(o.arr) = 2
    THEN Return(LatLngLiteral(PrimToNumber(o.arr[1]), PrimToNumber(o.arr[2])))
  ELSE IF HasKey(o, "lat") /\ HasKey(o, "lng")
    THEN Return(LatLngLiteral(Num(o.val["lat"]), Num(o.val["lng"])))
  ELSE IF HasKey(o, "latitude") /\ HasKey(o, "longitude")
    THEN Return(LatLngLiteral(Num(o.val["latitude"]), Num(o.val["longitude"])))
  ELSE Throw("TypeError", LatLngLiteral(Undefined, Undefined))

\* The bounds argument: a string, or an object with southwest and northeast.
latLngBoundsToString(latLngBounds) ==
  IF latLngBounds.isString THEN Return(latLngBounds.str)
  ELSE LET sw == latLngToString(latLngBounds.southwest)
           ne == latLngToString(latLngBounds.northeast)
       IN IF ~sw.ok THEN sw
          ELSE IF ~ne.ok THEN ne
          ELSE Return(sw.v \o separator \o ne.v)

(***************************************************************************)
(* encodePath of util.ts: the polyline codec.  Each coordinate is rounded  *)
(* to 1e-5 and the difference to the previous point is written in 5-bit    *)
(* groups, low group first, as characters from code 63 on.                 *)
(***************************************************************************)

\* The groups of an already shifted, non-negative part.
RECURSIVE encodeGroups(_)
encodeGroups(part) ==
  IF part >= 32 THEN <<FromCharCode((32 + (part % 32)) + 63)>> \o encodeGroups(part \div 32)
  ELSE <<FromCharCode(part + 63)>>

\* part < 0 ? ~(part << 1) : part << 1, then the groups.
encodePart(part) == encodeGroups(IF part < 0 THEN -(2 * part) - 1 ELSE 2 * part)

\* Math.round(x * 1e5) of a coordinate component; NaN and undefined give NaN.
Round1e5(x) == IF x.kind = "num" THEN x ELSE NaN

\* end - start; a NaN operand makes the difference NaN, which encodePart's
\* shift turns into 0.
Delta(end, start) ==
  IF end.kind = "num" /\ start.kind = "num" THEN end.v - start.v ELSE 0

RECURSIVE encodeFrom(_, _, _)
encodeFrom(path, startLat, startLng) ==
  IF path = <<>> THEN <<>>
  ELSE LET endLat == Round1e5(Head(path).lat)
           endLng == Round1e5(Head(path).lng)
       IN encodePart(Delta(endLat, startLat)) \o encodePart(Delta(endLng, startLng))
          \o encodeFrom(Tail(path), endLat, endLng)

encodePath(path) == encodeFrom(path, Num(0), Num(0))

(***************************************************************************)
(* Coordinate sequences                                                    *)
(***************************************************************************)

\* The argument of latLngArrayToStringMaybeEncoded: a string or a LatLng[].
PathString(s) == [isString |-> TRUE, str |-> s, path |-> <<>>]
PathArray(p) == [isString |-> FALSE, str |-> <<>>, path |-> p]

\* o.map(latLngToString).join(separator), when no element throws
concatenatedOf(o) == Join([i \in 1..Len(o) |-> latLngToString(o[i]).v], separator)

\* `enc:${encodePath(o.map(toLatLngLiteral))}`, when no element throws
encodedOf(o) == <<"e", "n", "c", ":">> \o encodePath([i \in 1..Len(o) |-> toLatLngLiteral(o[i]).v])

\* Variant: the encoded candidate also wins a tie.
ShorterOrEqualCandidate(encoded, concatenated) ==
  IF Len(encoded) <= Len(concatenated) THEN encoded ELSE concatenated

\* The choice between the two candidates.
ShorterCandidate(encoded, concatenated) ==
  IF Len(encoded) < Len(concatenated) THEN encoded ELSE concatenated

latLngArrayToStringMaybeEncoded(o) ==
  IF o.isString THEN Return(o.str)
  ELSE IF \E i \in 1..Len(o.path) : ~latLngToString(o.path[i]).ok
    THEN Throw("TypeError", <<>>)
  ELSE Return(ShorterCandidate(encodedOf(o.path), concatenatedOf(o.path)))

(***************************************************************************)
(* Generic values                                                          *)
(***************************************************************************)

\* The argument of objectToString: a string, or an object given by its
\* properties in insertion order (none of them an integer index, which
\* Object.keys would move to the front).
ObjString(s) == [isString |-> TRUE, str |-> s, entries |-> <<>>]
ObjEntries(es) == [isString |-> FALSE, str |-> <<>>, entries |-> es]

\* Object.keys(o)
ObjectKeys(entries) == [i \in 1..Len(entries) |-> entries[i].key]

\* o[k] for a property k of o
PropertyOf(entries, k) ==
  entries[CHOOSE i \in 1..Len(entries) : entries[i].key = k].value

\* m[k] for a parameter mapping: undefined when m has no property k
ParamOf(m, k) ==
  IF \E i \in 1..Len(m) : m[i].key = k THEN PropertyOf(m, k) ELSE UndefinedValue

\* Variant: the keys stay in insertion order.
unsortedKeys(keys) == keys

\* The key order objectToString uses: keys.sort().
sortedKeys(keys) == SortStrings(keys)

objectToString(o) ==
  IF o.isString THEN o.str
  ELSE LET keys == sortedKeys(ObjectKeys(o.entries))
       IN Join([i \in 1..Len(keys) |->
                  keys[i] \o <<":">> \o PrimToString(PropertyOf(o.entries, keys[i]))],
               separator)

\* The argument of toTimestamp: "now", a number n, or a Date whose time
\* value is ms milliseconds.
TimeNow == [kind |-> "now", n |-> 0, ms |-> 0]
TimeNumber(x) == [kind |-> "number", n |-> x, ms |-> 0]
TimeDate(t) == [kind |-> "Date", n |-> 0, ms |-> t]

\* Number(o) / 1000 for a Date o, in units of 1e-5.
dateToSeconds(ms) == (ms * Scale) \div 1000

toTimestamp(o) ==
  IF o.kind = "now" THEN o
  ELSE IF o.kind = "Date" THEN TimeNumber(dateToSeconds(o.ms))
  ELSE o

(***************************************************************************)
(* Parameter mappings: JavaScript objects as property lists in insertion   *)
(* order.  A parameter value has one of the shapes of a coordinate value:  *)
(* a string, an array of primitives, or an object.                         *)
(***************************************************************************)

Entry(k, x) == [key |-> k, value |-> x]

\* k in m
HasProperty(m, k) == \E i \in 1..Len(m) : m[i].key = k

\* m[k] = x: an existing property keeps its place, a new one goes last.
SetProperty(m, k, x) ==
  IF HasProperty(m, k)
    THEN [i \in 1..Len(m) |-> IF m[i].key = k THEN Entry(k, x) ELSE m[i]]
    ELSE Append(m, Entry(k, x))

\* delete m[k]
RECURSIVE DeleteProperty(_, _)
DeleteProperty(m, k) ==
  IF m = <<>> THEN <<>>
  ELSE IF Head(m).key = k THEN DeleteProperty(Tail(m), k)
  ELSE <<Head(m)>> \o DeleteProperty(Tail(m), k)

(***************************************************************************)
(* stringify of query-string 7 (imported as qs), for the options           *)
(* arrayFormat: "separator", arrayFormatSeparator: "|" and the sort option.*)
(***************************************************************************)

HexDigits == <<"0", "1", "2", "3", "4", "5", "6", "7", "8", "9", "A", "B", "C", "D", "E", "F">>

\* The characters strict-uri-encode leaves alone: letters, digits, - _ . ~
IsUnreserved(c) ==
  \/ (Code(c) >= 48 /\ Code(c) <= 57)
  \/ (Code(c) >= 65 /\ Code(c) <= 90)
  \/ (Code(c) >= 97 /\ Code(c) <= 122)
  \/ c \in {"-", "_", ".", "~"}

\* The encoding of each character: itself, or % and its code in hex.
EncodedChars == [c \in DOMAIN CharCodes |->
                   IF IsUnreserved(c) THEN <<c>>
                   ELSE <<"%", HexDigits[(Code(c) \div 16) + 1], HexDigits[(Code(c) % 16) + 1]>>]

encodeChar(c) == EncodedChars[c]

\* encode(value, options) with the default encode: true, strict: true
RECURSIVE encode(_)
encode(str) == IF str = <<>> THEN <<>> ELSE encodeChar(Head(str)) \o encode(Tail(str))

ObjectObject == <<"[", "o", "b", "j", "e", "c", "t", " ", "O", "b", "j", "e", "c", "t", "]">>

\* The rendering of one property; the empty string when the value is
\* undefined or an empty array (stringify filters such parts out).
stringifyEntry(e, options) ==
  IF e.value.shape = "undefined" THEN <<>>
  ELSE IF e.value.shape = "string" THEN encode(e.key) \o <<"=">> \o encode(e.value.str)
  ELSE IF e.value.shape = "object" THEN encode(e.key) \o <<"=">> \o encode(ObjectObject)
  ELSE IF e.value.arr = <<>> THEN <<>>
  ELSE encode(e.key) \o <<"=">> \o
       Join([i \in 1..Len(e.value.arr) |-> encode(PrimToString(e.value.arr[i]))],
            options.arrayFormatSeparator)

\* Variant: the keys are never sorted.
stringifyKeysUnsorted(keys, options) == keys

\* The order in which stringify visits the keys: sorted unless the options
\* say sort: false.
stringifyKeys(keys, options) == IF options.sort THEN SortStrings(keys) ELSE keys

RECURSIVE FilterNonEmpty(_)
FilterNonEmpty(parts) ==
  IF parts = <<>> THEN <<>>
  ELSE IF Head(parts) = <<>> THEN FilterNonEmpty(Tail(parts))
  ELSE <<Head(parts)>> \o FilterNonEmpty(Tail(parts))

qs(object, options) ==
  LET keys == stringifyKeys(ObjectKeys(object), options)
      parts == [i \in 1..Len(keys) |->
                  stringifyEntry(Entry(keys[i], PropertyOf(object, keys[i])), options)]
  IN Join(FilterNonEmpty(parts), <<"&">>)

\* The default third argument of serializer, and the same with sort: false.
QueryStringOptions(sort) ==
  [arrayFormat |-> "separator", arrayFormatSeparator |-> separator, sort |-> sort]

(***************************************************************************)
(* new URL(unsignedUrl): pathname and search                               *)
(***************************************************************************)

\* The least index of a character of cs in s, or Len(s) + 1.
IndexOfAny(s, cs) ==
  IF \E i \in 1..Len(s) : s[i] \in cs
    THEN CHOOSE i \in 1..Len(s) : s[i] \in cs /\ \A j \in 1..(i - 1) : s[j] \notin cs
    ELSE Len(s) + 1

IsAlpha(c) == (Code(c) >= 65 /\ Code(c) <= 90) \/ (Code(c) >= 97 /\ Code(c) <= 122)

\* An absolute URL scheme://host[path][?query][#fragment]; anything else
\* makes the URL constructor throw.
ParseURL(u) ==
  LET colon == IndexOfAny(u, {":"})
      hasScheme == /\ colon > 1
                   /\ colon + 2 <= Len(u)
                   /\ \A i \in 1..(colon - 1) : IsAlpha(u[i])
                   /\ u[colon + 1] = "/" /\ u[colon + 2] = "/"
      afterScheme == SubSeq(u, colon + 3, Len(u))
      hostEnd == IndexOfAny(afterScheme, {"/", "?", "#"})
      afterHost == SubSeq(afterScheme, hostEnd, Len(afterScheme))
      pathEnd == IndexOfAny(afterHost, {"?", "#"})
      path == SubSeq(afterHost, 1, pathEnd - 1)
      afterPath == SubSeq(afterHost, pathEnd, Len(afterHost))
      queryEnd == IndexOfAny(afterPath, {"#"})
      query == IF afterPath # <<>> /\ Head(afterPath) = "?"
                 THEN SubSeq(afterPath, 2, queryEnd - 1) ELSE <<>>
      noUrl == [pathname |-> <<>>, search |-> <<>>]
  IN IF ~hasScheme \/ hostEnd = 1 THEN Throw("TypeError", noUrl)
     ELSE Return([pathname |-> IF path = <<>> THEN <<"/">> ELSE path,
                  search |-> IF query = <<>> THEN <<>> ELSE <<"?">> \o query])

(***************************************************************************)
(* Base64 and the signature                                                *)
(***************************************************************************)

Base64Alphabet ==
  << "A", "B", "C", "D", "E", "F", "G", "H", "I", "J", "K", "L", "M", "N", "O", "P",
     "Q", "R", "S", "T", "U", "V", "W", "X", "Y", "Z", "a", "b", "c", "d", "e", "f",
     "g", "h", "i", "j", "k", "l", "m", "n", "o", "p", "q", "r", "s", "t", "u", "v",
     "w", "x", "y", "z", "0", "1", "2", "3", "4", "5", "6", "7", "8", "9", "+", "/" >>

IsBase64Char(c) == \E i \in 1..64 : Base64Alphabet[i] = c

unbase64(c) == (CHOOSE i \in 1..64 : Base64Alphabet[i] = c) - 1

\* str.replace(/a/g, b) for single characters a and b
ReplaceAll(str, a, b) == [i \in 1..Len(str) |-> IF str[i] = a THEN b ELSE str[i]]

\* The characters the base64 decoder of Buffer.from consumes: it stops at
\* the first "=" and skips every other character outside the alphabet.
RECURSIVE LegalChars(_)
LegalChars(str) ==
  IF str = <<>> \/ Head(str) = "=" THEN <<>>
  ELSE IF IsBase64Char(Head(str)) THEN <<Head(str)>> \o LegalChars(Tail(str))
  ELSE LegalChars(Tail(str))

\* The bytes of a run of 6-bit values: three per full group of four, two
\* for a rest of three, one for a rest of two, none for a rest of one.
RECURSIVE DecodeGroups(_)
DecodeGroups(six) ==
  IF Len(six) < 2 THEN <<>>
  ELSE LET b1 == (six[1] * 4) + (six[2] \div 16)
       IN IF Len(six) = 2 THEN <<b1>>
          ELSE LET b2 == ((six[2] % 16) * 16) + (six[3] \div 4)
               IN IF Len(six) = 3 THEN <<b1, b2>>
                  ELSE <<b1, b2, ((six[3] % 4) * 64) + six[4]>>
                       \o DecodeGroups(SubSeq(six, 5, Len(six)))

\* Variant: a decoder that rejects what is not canonical base64.
BufferFromBase64Strict(str) ==
  IF Len(str) % 4 # 0 \/ \E i \in 1..Len(str) : ~IsBase64Char(str[i]) /\ str[i] # "="
    THEN Throw("TypeError", <<>>)
    ELSE Return(DecodeGroups([i \in 1..Len(LegalChars(str)) |-> unbase64(LegalChars(str)[i])]))

\* Buffer.from(str, "base64"): never throws.
BufferFromBase64(str) ==
  LET legal == LegalChars(str)
  IN Return(DecodeGroups([i \in 1..Len(legal) |-> unbase64(legal[i])]))

\* buffer.toString("base64"), with "=" padding
RECURSIVE Base64Encode(_)
Base64Encode(bytes) ==
  IF bytes = <<>> THEN <<>>
  ELSE LET c1 == Base64Alphabet[(bytes[1] \div 4) + 1]
       IN IF Len(bytes) = 1
            THEN <<c1, Base64Alphabet[((bytes[1] % 4) * 16) + 1], "=", "=">>
          ELSE LET c2 == Base64Alphabet[((bytes[1] % 4) * 16) + (bytes[2] \div 16) + 1]
               IN IF Len(bytes) = 2
                    THEN <<c1, c2, Base64Alphabet[((bytes[2] % 16) * 4) + 1], "=">>
                  ELSE <<c1, c2,
                         Base64Alphabet[((bytes[2] % 16) * 4) + (bytes[3] \div 64) + 1],
                         Base64Alphabet[(bytes[3] % 64) + 1]>>
                       \o Base64Encode(SubSeq(bytes, 4, Len(bytes)))

\* The keyed digest.  createHmac("sha1", key).update(message).digest() is a
\* function of the key bytes and the message only; it is represented by a
\* 15-bit keyed polynomial checksum with that property (over the key, a
\* mark, the message).  Checksum gives the checksum h of a sequence and the
\* weight p of its length; it halves the sequence, h(a \o b) being
\* h(a) * p(b) + h(b).
RECURSIVE Checksum(_)
Checksum(xs) ==
  IF xs = <<>> THEN [h |-> 0, p |-> 1]
  ELSE IF Len(xs) = 1 THEN [h |-> xs[1] % 32768, p |-> 33]
  ELSE LET mid == Len(xs) \div 2
           l == Checksum(SubSeq(xs, 1, mid))
           r == Checksum(SubSeq(xs, mid + 1, Len(xs)))
       IN [h |-> ((l.h * r.p) + r.h) % 32768, p |-> (l.p * r.p) % 32768]

createHmac(key, message) ==
  LET h == Checksum(key \o <<256 + Len(key)>>
                    \o [i \in 1..Len(message) |-> Code(message[i])]).h
  IN <<h \div 256, h % 256>>

createPremiumPlanSignature(unsignedUrl, clientSecret) ==
  LET fullUrl == ParseURL(unsignedUrl)
      pathAndQuery == fullUrl.v.pathname \o fullUrl.v.search
      unsafeClientSecret == ReplaceAll(ReplaceAll(clientSecret, "-", "+"), "_", "/")
      decodedSecret == BufferFromBase64(unsafeClientSecret)
      unsafeSignature == Base64Encode(createHmac(decodedSecret.v, pathAndQuery))
  IN IF ~fullUrl.ok THEN Throw("TypeError", <<>>)
     ELSE IF ~decodedSecret.ok THEN Throw(decodedSecret.error, <<>>)
     ELSE Return(ReplaceAll(ReplaceAll(unsafeSignature, "+", "-"), "/", "_"))

(***************************************************************************)
(* serializer and createPremiumPlanQueryString                             *)
(***************************************************************************)

client == <<"c", "l", "i", "e", "n", "t">>
client_id == <<"c", "l", "i", "e", "n", "t", "_", "i", "d">>
client_secret == <<"c", "l", "i", "e", "n", "t", "_", "s", "e", "c", "r", "e", "t">>

\* The two objects a call of the returned function deals with: the
\* caller's params and the object the spread creates.
ObjectIds == {"params", "copy"}

\* Variant: no copy is made, serializedParams is the caller's object.
SpreadAlias(source) == source

\* { ...params }: the object serializedParams refers to.
SpreadCopy(source) == "copy"

\* format[key](value) for the serializer functions a format table holds.
applySerializer(f, value) ==
  LET r == latLngToString(value)
  IN IF r.ok THEN Return(CoordString(r.v)) ELSE Throw(r.error, value)

\* Object.keys(format).forEach(...): every key that is in serializedParams
\* gets its value replaced; a throwing serializer ends the call.
applyFormat(fmt, m) ==
  IF \E i \in 1..Len(m) : m[i].key \in DOMAIN fmt /\ ~applySerializer(fmt[m[i].key], m[i].value).ok
    THEN Throw("TypeError", m)
    ELSE Return([i \in 1..Len(m) |->
                   IF m[i].key \in DOMAIN fmt
                     THEN Entry(m[i].key, applySerializer(fmt[m[i].key], m[i].value).v)
                     ELSE m[i]])

\* Variant: the secret alone selects the signing path.
isPremiumPlanSecretOnly(m) == HasProperty(m, client_secret)

\* "client_id" in serializedParams && "client_secret" in serializedParams
isPremiumPlan(m) == HasProperty(m, client_id) /\ HasProperty(m, client_secret)

\* Variant: client_secret is left in the mapping.
canonicalizeKeepingSecret(m) ==
  DeleteProperty(SetProperty(m, client, ParamOf(m, client_id)), client_id)

\* Lines 144 to 147: client takes the value of client_id, then client_id
\* and client_secret are deleted.
canonicalize(m) ==
  DeleteProperty(DeleteProperty(SetProperty(m, client, ParamOf(m, client_id)),
                                client_id),
                 client_secret)

\* `${baseUrl}?${partialQueryString}`
unsignedUrlOf(base, partial) == base \o <<"?">> \o partial

\* Variant: the signature field is put in front.
signatureFirst(partial, sig) ==
  <<"s", "i", "g", "n", "a", "t", "u", "r", "e", "=">> \o sig \o <<"&">> \o partial

\* `${partialQueryString}&signature=${signature}`
signedQueryString(partial, sig) ==
  partial \o <<"&", "s", "i", "g", "n", "a", "t", "u", "r", "e", "=">> \o sig

(***************************************************************************)
(* The inputs of the calls                                                 *)
(***************************************************************************)

\* Most properties of a parameter mapping.
MaxParams == 3
\* Most coordinates of a coordinate sequence.
MaxPathLen == 2
\* Most properties of an object given to objectToString.
MaxEntries == 3
\* Dates range over the quarter seconds up to this many around the epoch.
MaxQuarters == 8

\* 38.5, -120.2, 40.7, -120.95 and 1 under the property names.
ObjVals == [k \in ObjKeys |->
              CASE k = "lat" -> 3850000 [] k = "lng" -> -12020000
                [] k = "latitude" -> 4070000 [] k = "longitude" -> -12095000
                [] OTHER -> 100000]

ArrayItems == {PrimNum(123400), PrimNum(123450), PrimStr(<<"7">>)}

\* Coordinate values of every shape, supported or not.
CoordInputs ==
  {CoordString(str) : str \in {<<"1", ".", "5", ",", "2">>, <<"x">>, <<>>}}
  \cup {CoordArray(a) : a \in UNION {[1..n -> ArrayItems] : n \in 0..3}}
  \cup {CoordObject(ks, ObjVals) : ks \in SUBSET ObjKeys}

\* The coordinates the sequences are made of.
PathCoords ==
  { CoordArray(<<PrimNum(3850000), PrimNum(-12020000)>>),
    CoordArray(<<PrimNum(4070000), PrimNum(-12095000)>>),
    CoordArray(<<PrimNum(0), PrimNum(0)>>),
    CoordArray(<<PrimNum(123400), PrimNum(123450)>>),
    CoordArray(<<PrimStr(<<"1", ".", "5">>), PrimStr(<<"2">>)>>),
    CoordString(<<"1", ".", "5", ",", "2">>),
    CoordString(<<"x">>),
    CoordObject({"lat", "lng"}, ObjVals),
    CoordObject({"latitude", "longitude"}, ObjVals),
    CoordObject({"lat", "foo"}, ObjVals) }

PathInputs ==
  {PathString(<<"e", "n", "c", ":", "?", "?">>)}
  \cup {PathArray(p) : p \in UNION {[1..n -> PathCoords] : n \in 0..MaxPathLen}}

BoundsInputs ==
  {[isString |-> TRUE, str |-> <<"a", "|", "b">>,
    southwest |-> CoordString(<<>>), northeast |-> CoordString(<<>>)]}
  \cup {[isString |-> FALSE, str |-> <<>>, southwest |-> sw, northeast |-> ne] :
          sw \in PathCoords, ne \in PathCoords}

\* Sequences over S of length at most n without two entries of one key.
DistinctKeyed(S, n) ==
  {m \in UNION {[1..k -> S] : k \in 0..n} :
     \A i, j \in 1..Len(m) : m[i].key = m[j].key => i = j}

ObjectProperties ==
  {Entry(k, x) : k \in {<<"a">>, <<"b">>, <<"B">>, <<"a", "b">>},
                 x \in {PrimStr(<<"1">>), PrimNum(250000)}}

ObjectInputs ==
  {ObjString(<<"b", ":", "1", "|", "a", ":", "2">>)}
  \cup {ObjEntries(es) : es \in DistinctKeyed(ObjectProperties, MaxEntries)}

TimeInputs ==
  {TimeNow, TimeNumber(0), TimeNumber(1500 * Scale)}
  \cup {TimeDate(q * 250) : q \in (-MaxQuarters)..MaxQuarters}

\* Client secrets: base64, URL-safe base64, padded base64, and three
\* strings that are not base64 (foreign characters, a length of 4n + 1,
\* padding in the middle).
secretBase64 == <<"c", "2", "V", "j">>
secretUrlSafe == <<"a", "-", "_", "b">>
secretPadded == <<"Y", "Q", "=", "=">>
secretForeign == <<"!", "c", "2", "V", "j", "!">>
secretShort == <<"c", "2", "V", "j", "c">>
secretMidPad == <<"Y", "Q", "=", "=", "c", "2", "V", "j">>
Secrets == {secretBase64, secretUrlSafe, secretPadded, secretForeign, secretShort, secretMidPad}

urlFull == <<"h", "t", "t", "p", ":", "/", "/", "h", "/", "p">>
urlNoPath == <<"h", "t", "t", "p", ":", "/", "/", "h">>
urlFragment == <<"h", "t", "t", "p", ":", "/", "/", "h", "/", "p", "#", "f">>
urlRelative == <<"/", "p">>
BaseUrls == {urlFull, urlNoPath, urlFragment, urlRelative}

QueryStrings == {<<"a", "=", "1">>, <<"a", "=", "1", "&", "c", "l", "i", "e", "n", "t", "=", "i", "d">>}

\* The properties a parameter mapping is made of.
ParamProperties ==
  {Entry(<<"a">>, x) : x \in {CoordString(<<"x", " ", "y">>),
                             CoordArray(<<PrimStr(<<"p">>), PrimNum(150000)>>),
                             CoordObject({"lat", "lng"}, ObjVals),
                             CoordObject({"foo"}, ObjVals)}}
  \cup {Entry(<<"z">>, CoordString(<<"1", "&", "b", "=", "2">>)),
        Entry(<<"Z">>, CoordArray(<<>>)),
        Entry(client, CoordString(<<"o", "l", "d">>)),
        Entry(client_id, CoordString(<<"i", "d">>))}
  \cup {Entry(client_secret, CoordString(x)) : x \in {secretBase64, secretForeign}}

ParamInputs == DistinctKeyed(ParamProperties, MaxParams)

\* Format tables: latLngToString for some of the fields a and q.
FormatInputs ==
  {[k \in ks |-> "latLngToString"] : ks \in SUBSET {<<"a">>, <<"q">>}}

(***************************************************************************)
(* The state machine.  Every exported function is called from the idle     *)
(* state; a call of the function serializer returns runs through the steps *)
(* of its body and of createPremiumPlanQueryString.                        *)
(***************************************************************************)

VARIABLES
  pc,                  \* position: idle, or a point in the running call
  fn,                  \* the function that was called
  arg,                 \* its argument (the pure functions)
  ret,                 \* what the call returned or threw
  heap,                \* the properties of the objects of ObjectIds
  format,              \* the format table given to serializer
  baseUrl,             \* the base URL given to serializer
  queryStringOptions,  \* the options given to serializer
  serializedParams,    \* the object the local serializedParams refers to
  callee,              \* which return statement of the closure was taken
  clientSecret,        \* locals of createPremiumPlanQueryString
  partialQueryString,
  unsignedUrl,
  signature

vars == <<pc, fn, arg, ret, heap, format, baseUrl, queryStringOptions, serializedParams,
          callee, clientSecret, partialQueryString, unsignedUrl, signature>>

NoFormat == [k \in {} |-> "latLngToString"]

Init ==
  /\ pc = "idle"
  /\ fn = "none"
  /\ arg = <<>>
  /\ ret = <<>>
  /\ heap = [o \in ObjectIds |-> <<>>]
  /\ format = NoFormat
  /\ baseUrl = <<>>
  /\ queryStringOptions = QueryStringOptions(TRUE)
  /\ serializedParams = "none"
  /\ callee = "none"
  /\ clientSecret = <<>>
  /\ partialQueryString = <<>>
  /\ unsignedUrl = <<>>
  /\ signature = <<>>

serializerVars == <<heap, format, baseUrl, queryStringOptions, serializedParams,
                    callee, clientSecret, partialQueryString, unsignedUrl, signature>>


\* The calls of the pure functions: the argument, and what comes back.
CallLatLngToString ==
  /\ pc = "idle"
  /\ \E o \in CoordInputs :
       /\ fn' = "latLngToString"
       /\ arg' = o
       /\ ret' = latLngToString(o)
  /\ pc' = "done"
  /\ UNCHANGED serializerVars

CallToLatLngLiteral ==
  /\ pc = "idle"
  /\ \E o \in CoordInputs :
       /\ fn' = "toLatLngLiteral"
       /\ arg' = o
       /\ ret' = toLatLngLiteral(o)
  /\ pc' = "done"
  /\ UNCHANGED serializerVars

CallLatLngBoundsToString ==
  /\ pc = "idle"
  /\ \E b \in BoundsInputs :
       /\ fn' = "latLngBoundsToString"
       /\ arg' = b
       /\ ret' = latLngBoundsToString(b)
  /\ pc' = "done"
  /\ UNCHANGED serializerVars

CallLatLngArrayToStringMaybeEncoded ==
  /\ pc = "idle"
  /\ \E o \in PathInputs :
       /\ fn' = "latLngArrayToStringMaybeEncoded"
       /\ arg' = o
       /\ ret' = latLngArrayToStringMaybeEncoded(o)
  /\ pc' = "done"
  /\ UNCHANGED serializerVars

CallObjectToString ==
  /\ pc = "idle"
  /\ \E o \in ObjectInputs :
       /\ fn' = "objectToString"
       /\ arg' = o
       /\ ret' = Return(objectToString(o))
  /\ pc' = "done"
  /\ UNCHANGED serializerVars

CallToTimestamp ==
  /\ pc = "idle"
  /\ \E o \in TimeInputs :
       /\ fn' = "toTimestamp"
       /\ arg' = o
       /\ ret' = Return(toTimestamp(o))
  /\ pc' = "done"
  /\ UNCHANGED serializerVars

CallCreatePremiumPlanSignature ==
  /\ pc = "idle"
  /\ \E b \in BaseUrls, q \in QueryStrings, secret \in Secrets :
       /\ fn' = "createPremiumPlanSignature"
       /\ arg' = [unsignedUrl |-> unsignedUrlOf(b, q), clientSecret |-> secret]
       /\ ret' = createPremiumPlanSignature(unsignedUrlOf(b, q), secret)
  /\ pc' = "done"
  /\ UNCHANGED serializerVars

\* serializer(format, baseUrl, queryStringOptions)(params) is entered.
SerializerCall ==
  /\ pc = "idle"
  /\ \E params \in ParamInputs, f \in FormatInputs, b \in BaseUrls, sort \in BOOLEAN :
       /\ heap' = [heap EXCEPT !["params"] = params]
       /\ format' = f
       /\ baseUrl' = b
       /\ queryStringOptions' = QueryStringOptions(sort)
  /\ pc' = "called"
  /\ fn' = "serializer"
  /\ UNCHANGED <<arg, ret, serializedParams, callee, clientSecret, partialQueryString,
                 unsignedUrl, signature>>

\* Lines 112 to 118: the copy, then the format table.
CopyAndFormat ==
  /\ pc = "called"
  /\ LET target == SpreadCopy("params")
         formatted == applyFormat(format, heap["params"])
     IN /\ serializedParams' = target
        /\ heap' = [heap EXCEPT ![target] = formatted.v]
        /\ IF formatted.ok
             THEN pc' = "serialized" /\ ret' = ret
             ELSE pc' = "done" /\ ret' = Throw(formatted.error, <<>>)
  /\ UNCHANGED <<fn, arg, format, baseUrl, queryStringOptions, callee, clientSecret,
                 partialQueryString, unsignedUrl, signature>>

\* Line 125: return qs(serializedParams, queryStringOptions).
PlainQuery ==
  /\ pc = "serialized"
  /\ ~isPremiumPlan(heap[serializedParams])
  /\ pc' = "done"
  /\ callee' = "qs"
  /\ ret' = Return(qs(heap[serializedParams], queryStringOptions))
  /\ UNCHANGED <<fn, arg, heap, format, baseUrl, queryStringOptions, serializedParams,
                 clientSecret, partialQueryString, unsignedUrl, signature>>

\* Line 122 and lines 144 to 147: createPremiumPlanQueryString is entered
\* and rewrites the object it was given.
Canonicalize ==
  /\ pc = "serialized"
  /\ isPremiumPlan(heap[serializedParams])
  /\ pc' = "canonicalized"
  /\ callee' = "createPremiumPlanQueryString"
  /\ clientSecret' = ParamOf(heap[serializedParams], client_secret)
  /\ heap' = [heap EXCEPT ![serializedParams] = canonicalize(heap[serializedParams])]
  /\ UNCHANGED <<fn, arg, ret, format, baseUrl, queryStringOptions, serializedParams,
                 partialQueryString, unsignedUrl, signature>>

\* Lines 149 to 151: the query string, the URL and its signature.
Sign ==
  /\ pc = "canonicalized"
  /\ LET partial == qs(heap[serializedParams], queryStringOptions)
         url == unsignedUrlOf(baseUrl, partial)
         sig == IF clientSecret.shape = "string"
                  THEN createPremiumPlanSignature(url, clientSecret.str)
                  ELSE Throw("TypeError", <<>>)
     IN /\ partialQueryString' = partial
        /\ unsignedUrl' = url
        /\ signature' = sig.v
        /\ IF sig.ok
             THEN pc' = "signed" /\ ret' = ret
             ELSE pc' = "done" /\ ret' = Throw(sig.error, <<>>)
  /\ UNCHANGED <<fn, arg, heap, format, baseUrl, queryStringOptions, serializedParams,
                 callee, clientSecret>>

\* Line 154: the signature comes last.
AppendSignature ==
  /\ pc = "signed"
  /\ pc' = "done"
  /\ ret' = Return(signedQueryString(partialQueryString, signature))
  /\ UNCHANGED <<fn, arg, heap, format, baseUrl, queryStringOptions, serializedParams,
                 callee, clientSecret, partialQueryString, unsignedUrl, signature>>

\* The call is over; its objects and locals are gone.
Finish ==
  /\ pc = "done"
  /\ pc' = "idle"
  /\ fn' = "none"
  /\ arg' = <<>>
  /\ ret' = <<>>
  /\ heap' = [o \in ObjectIds |-> <<>>]
  /\ format' = NoFormat
  /\ baseUrl' = <<>>
  /\ queryStringOptions' = QueryStringOptions(TRUE)
  /\ serializedParams' = "none"
  /\ callee' = "none"
  /\ clientSecret' = <<>>
  /\ partialQueryString' = <<>>
  /\ unsignedUrl' = <<>>
  /\ signature' = <<>>

Next ==
  \/ CallLatLngToString
  \/ CallToLatLngLiteral
  \/ CallLatLngBoundsToString
  \/ CallLatLngArrayToStringMaybeEncoded
  \/ CallObjectToString
  \/ CallToTimestamp
  \/ CallCreatePremiumPlanSignature
  \/ SerializerCall
  \/ CopyAndFormat
  \/ PlainQuery
  \/ Canonicalize
  \/ Sign
  \/ AppendSignature
  \/ Finish

Spec == Init /\ [][Next]_vars

(***************************************************************************)
(* Reading a query string back: its fields in order                        *)
(***************************************************************************)

\* name=value, split at the first "=".
FieldOf(part) ==
  LET i == IndexOfAny(part, {"="})
  IN [name |-> SubSeq(part, 1, i - 1), value |-> SubSeq(part, i + 1, Len(part))]

Fields(str) ==
  IF str = <<>> THEN <<>>
  ELSE LET parts == Split(str, "&") IN [i \in 1..Len(parts) |-> FieldOf(parts[i])]

FieldNames(str) == LET fs == Fields(str) IN [i \in 1..Len(fs) |-> fs[i].name]

signatureName == <<"s", "i", "g", "n", "a", "t", "u", "r", "e">>

\* A call of the function serializer returned has come back with a string.
Returned == pc = "done" /\ fn = "serializer" /\ ret.ok

OnSigningPath == callee = "createPremiumPlanQueryString"

\* The caller's mapping has both credentials.
BothCredentials ==
  HasProperty(heap["params"], client_id) /\ HasProperty(heap["params"], client_secret)

(***************************************************************************)
(* C1: when the caller's mapping has both client_id and client_secret, the *)
(* returned string has exactly one field client, carrying the (encoded)    *)
(* value of client_id, and no field named client_id or client_secret.      *)
(***************************************************************************)
C1_ClientRenamedSecretRemoved ==
  (Returned /\ BothCredentials) =>
    LET fs == Fields(ret.v)
        id == PropertyOf(heap["params"], client_id).str
    IN /\ \E i \in 1..Len(fs) : fs[i] = [name |-> client, value |-> encode(id)]
       /\ Cardinality({i \in 1..Len(fs) : fs[i].name = client}) = 1
       /\ \A i \in 1..Len(fs) : fs[i].name \notin {client_id, client_secret}

\* A signed string came back for a mapping that also had a field client.
C1_Witness ==
  /\ Returned /\ BothCredentials /\ OnSigningPath
  /\ HasProperty(heap["params"], client)

(***************************************************************************)
(* C2: on the signing path the returned string is the canonical query      *)
(* string followed by &signature=<signature>; the signature is the one of  *)
(* baseUrl?<canonical query string>, it is the last field, and the fields  *)
(* before it are those of the canonical query string.  The steps come in   *)
(* the order canonicalize, sign, append, and the result is written once.   *)
(***************************************************************************)
C2_Shape ==
  (Returned /\ OnSigningPath) =>
    LET fs == Fields(ret.v)
    IN /\ partialQueryString = qs(heap[serializedParams], queryStringOptions)
       /\ unsignedUrl = baseUrl \o <<"?">> \o partialQueryString
       /\ signature = createPremiumPlanSignature(unsignedUrl, clientSecret.str).v
       /\ ret.v = partialQueryString \o <<"&">> \o signatureName \o <<"=">> \o signature
       /\ fs[Len(fs)] = [name |-> signatureName, value |-> signature]
       /\ SubSeq(fs, 1, Len(fs) - 1) = Fields(partialQueryString)

C2_Order ==
  /\ pc' = "canonicalized" => pc = "serialized"
  /\ pc' = "signed" => pc = "canonicalized"
  /\ (OnSigningPath /\ pc' = "done" /\ ret'.ok) => (pc = "signed" \/ pc = "done")
  /\ (pc = "done" /\ pc' = "done") => ret' = ret

C2_SignatureLast == []C2_Shape /\ [][C2_Order]_vars

\* A signed string came back whose canonical part has several fields.
C2_Witness ==
  Returned /\ OnSigningPath /\ Len(Fields(partialQueryString)) >= 2

(***************************************************************************)
(* C3: while a call of the returned function runs, and when it is over,    *)
(* the caller's mapping is what it was when the call began.                *)
(***************************************************************************)
C3_ParamsNotMutated ==
  [][(pc # "idle" /\ pc' # "idle") => heap'["params"] = heap["params"]]_vars

\* A signed string came back: the copy lost the credentials, the caller's
\* mapping still has them.
C3_Witness ==
  /\ Returned /\ OnSigningPath /\ BothCredentials
  /\ heap["copy"] # heap["params"]
  /\ ~HasProperty(heap["copy"], client_secret)

(***************************************************************************)
(* C4: toTimestamp gives a Date as whole Unix seconds: its milliseconds    *)
(* divided by 1000 and truncated; "now" and numbers come back unchanged.   *)
(***************************************************************************)
TruncDiv(a, b) == IF a >= 0 THEN a \div b ELSE -((-a) \div b)

C4_WholeSeconds ==
  (pc = "done" /\ fn = "toTimestamp") =>
    /\ arg.kind = "Date" => ret.v = TimeNumber(TruncDiv(arg.ms, 1000) * Scale)
    /\ arg.kind # "Date" => ret.v = arg

(***************************************************************************)
(* C5: createPremiumPlanSignature, and with it the signing path, fails     *)
(* when the translated client secret is not valid base64.                  *)
(***************************************************************************)
\* Canonical base64: groups of four characters of the alphabet, the last
\* group possibly ending in one or two "=".
ValidBase64(str) ==
  LET pad == IF Len(str) >= 2 /\ str[Len(str)] = "=" /\ str[Len(str) - 1] = "=" THEN 2
             ELSE IF Len(str) >= 1 /\ str[Len(str)] = "=" THEN 1 ELSE 0
  IN /\ Len(str) % 4 = 0
     /\ \A i \in 1..(Len(str) - pad) : IsBase64Char(str[i])

Translated(secret) == ReplaceAll(ReplaceAll(secret, "-", "+"), "_", "/")

C5_InvalidSecretFails ==
  /\ (pc = "done" /\ fn = "createPremiumPlanSignature"
        /\ ~ValidBase64(Translated(arg.clientSecret))) => ~ret.ok
  /\ (pc = "done" /\ fn = "serializer" /\ OnSigningPath
        /\ ~ValidBase64(Translated(clientSecret.str))) => ~ret.ok

\* Amended: the secret never makes the call fail.  The call fails exactly
\* when the URL does not parse; otherwise the signature is the one of the
\* secret's base64 characters up to the first "=".
C5_InvalidSecretStillSigns ==
  /\ (pc = "done" /\ fn = "createPremiumPlanSignature") =>
       /\ ret.ok <=> ParseURL(arg.unsignedUrl).ok
       /\ ret.ok => /\ ret.v # <<>>
                    /\ ret.v = createPremiumPlanSignature(
                                 arg.unsignedUrl, LegalChars(Translated(arg.clientSecret))).v
  /\ (pc = "done" /\ fn = "serializer" /\ OnSigningPath) =>
       (ret.ok <=> ParseURL(unsignedUrl).ok)

\* A signature came back for a secret that is not base64.
C5_Witness ==
  /\ pc = "done" /\ fn = "createPremiumPlanSignature" /\ ret.ok
  /\ ~ValidBase64(Translated(arg.clientSecret))
  /\ LegalChars(Translated(arg.clientSecret)) # Translated(arg.clientSecret)

(***************************************************************************)
(* C6: the fields of the returned string are in the insertion order of the *)
(* serializer-transformed mapping, the signature field being last.         *)
(***************************************************************************)
\* The keys stringify renders: those whose value is neither undefined nor
\* an empty array.
RECURSIVE RenderedKeys(_)
RenderedKeys(m) ==
  IF m = <<>> THEN <<>>
  ELSE IF \/ Head(m).value.shape = "undefined"
          \/ Head(m).value.shape = "array" /\ Head(m).value.arr = <<>>
    THEN RenderedKeys(Tail(m))
  ELSE <<encode(Head(m).key)>> \o RenderedKeys(Tail(m))

\* The field names of the result, without the appended signature field.
QueryFieldNames ==
  LET names == FieldNames(ret.v)
  IN IF OnSigningPath THEN SubSeq(names, 1, Len(names) - 1) ELSE names

SignatureIsLast ==
  OnSigningPath => LET names == FieldNames(ret.v) IN names[Len(names)] = signatureName

IsAscending(names) ==
  \A i, j \in 1..Len(names) : i < j => StrLess(names[i], names[j])

SameElements(a, b) ==
  /\ Len(a) = Len(b)
  /\ {a[i] : i \in 1..Len(a)} = {b[i] : i \in 1..Len(b)}

C6_InsertionOrder ==
  Returned =>
    /\ QueryFieldNames = RenderedKeys(heap[serializedParams])
    /\ SignatureIsLast

\* Amended: the fields are in ascending code-unit order of their names,
\* unless the options say sort: false, when they are in insertion order of
\* the transformed mapping; the signature field is last either way.
C6_SortedUnlessSortFalse ==
  Returned =>
    /\ IF queryStringOptions.sort
         THEN /\ IsAscending(QueryFieldNames)
              /\ SameElements(QueryFieldNames, RenderedKeys(heap[serializedParams]))
         ELSE QueryFieldNames = RenderedKeys(heap[serializedParams])
    /\ SignatureIsLast

\* A signed string under the default options whose mapping was not in key
\* order: client went in last and is rendered before another field.
C6_Witness ==
  /\ Returned /\ OnSigningPath /\ queryStringOptions.sort
  /\ Len(QueryFieldNames) >= 2
  /\ QueryFieldNames # RenderedKeys(heap[serializedParams])

(***************************************************************************)
(* C7: for a coordinate sequence, latLngArrayToStringMaybeEncoded returns  *)
(* the enc: candidate exactly when it is strictly shorter than the joined  *)
(* candidate, the joined candidate otherwise; the result is one of the two *)
(* and no longer than either.  A string comes back unchanged.              *)
(***************************************************************************)
C7_ShorterCandidate ==
  (pc = "done" /\ fn = "latLngArrayToStringMaybeEncoded" /\ ret.ok) =>
    IF arg.isString THEN ret.v = arg.str
    ELSE LET plain == Join([i \in 1..Len(arg.path) |-> latLngToString(arg.path[i]).v], <<"|">>)
             enc == <<"e", "n", "c", ":">>
                    \o encodePath([i \in 1..Len(arg.path) |-> toLatLngLiteral(arg.path[i]).v])
         IN /\ ret.v = enc <=> Len(enc) < Len(plain)
            /\ Len(enc) >= Len(plain) => ret.v = plain
            /\ ret.v \in {enc, plain}
            /\ Len(ret.v) <= Len(enc) /\ Len(ret.v) <= Len(plain)

\* A call whose two candidates have the same length.
C7_Witness ==
  /\ pc = "done" /\ fn = "latLngArrayToStringMaybeEncoded" /\ ret.ok /\ ~arg.isString
  /\ arg.path # <<>>
  /\ Len(encodedOf(arg.path)) = Len(concatenatedOf(arg.path))

(***************************************************************************)
(* C8: a coordinate value of none of the four supported shapes makes       *)
(* latLngToString and toLatLngLiteral throw a TypeError.                   *)
(***************************************************************************)
SupportedShape(o) ==
  \/ o.shape = "string"
  \/ o.shape = "array" /\ Len(o.arr) = 2
  \/ o.shape = "object" /\ {"lat", "lng"} \subseteq o.keys
  \/ o.shape = "object" /\ {"latitude", "longitude"} \subseteq o.keys

C8_UnsupportedShapeThrows ==
  (pc = "done" /\ fn \in {"latLngToString", "toLatLngLiteral"} /\ ~SupportedShape(arg)) =>
    (~ret.ok /\ ret.error = "TypeError")

\* toLatLngLiteral threw for an object that has lat and longitude only.
C8_Witness ==
  /\ pc = "done" /\ fn = "toLatLngLiteral" /\ ~ret.ok
  /\ arg.shape = "object" /\ arg.keys = {"lat", "longitude"}

(***************************************************************************)
(* C9: objectToString gives every insertion order of the same properties   *)
(* the same string: the entries key:value in ascending key order, joined   *)
(* by "|".  A string comes back unchanged.                                 *)
(***************************************************************************)
InsertionOrders(n) == {f \in [1..n -> 1..n] : \A i, j \in 1..n : f[i] = f[j] => i = j}

C9_OrderIndependent ==
  (pc = "done" /\ fn = "objectToString") =>
    IF arg.isString THEN ret.v = arg.str
    ELSE LET es == arg.entries
             out == IF ret.v = <<>> THEN <<>> ELSE Split(ret.v, "|")
         IN /\ \A f \in InsertionOrders(Len(es)) :
                 objectToString(ObjEntries([i \in 1..Len(es) |-> es[f[i]]])) = ret.v
            /\ Len(out) = Len(es)
            /\ \A i \in 1..Len(es) :
                 \E j \in 1..Len(out) : out[j] = es[i].key \o <<":">> \o PrimToString(es[i].value)
            /\ \A i, j \in 1..Len(out) :
                 i < j => StrLess(Split(out[i], ":")[1], Split(out[j], ":")[1])

\* An object whose properties were inserted in descending key order.
C9_Witness ==
  /\ pc = "done" /\ fn = "objectToString" /\ ~arg.isString
  /\ Len(arg.entries) >= 2
  /\ \A i \in 1..(Len(arg.entries) - 1) : StrLess(arg.entries[i + 1].key, arg.entries[i].key)

(***************************************************************************)
(* C10: the signing path is taken exactly when the mapping has both        *)
(* client_id and client_secret.  With one of them only, the plain builder  *)
(* renders the mapping as it is: no signature is appended, and a lone      *)
(* client_secret is a field of the returned string.                        *)
(***************************************************************************)
C10_SigningIffBoth ==
  (fn = "serializer" /\ pc \in {"canonicalized", "signed", "done"} /\ callee # "none") =>
    /\ OnSigningPath <=> BothCredentials
    /\ (pc = "done" /\ ~BothCredentials) =>
         /\ callee = "qs"
         /\ signature = <<>>
         /\ ret = Return(qs(heap[serializedParams], queryStringOptions))
         /\ \A k \in {client_id, client_secret} :
              HasProperty(heap["params"], k) =>
                \E i \in 1..Len(Fields(ret.v)) :
                  Fields(ret.v)[i] = [name |-> k,
                                      value |-> encode(PropertyOf(heap["params"], k).str)]

\* A plain string came back that carries a client_secret field.
C10_Witness ==
  /\ Returned /\ callee = "qs"
  /\ HasProperty(heap["params"], client_secret)
  /\ ~HasProperty(heap["params"], client_id)
  /\ \E i \in 1..Len(Fields(ret.v)) : Fields(ret.v)[i].name = client_secret

====
